---- MODULE Spec2Model ----
(***************************************************************************)
(* Model of SeroviICAI/Cryptography_Chat: src/rsa.py (textbook RSA with    *)
(* decimal padding) and src/criptochat.py (users, inboxes, key rotation,   *)
(* padding changes).  The arithmetic module `modular` imported by rsa.py   *)
(* is not among the sources; its functions are modelled from section 4.1   *)
(* of the specification.                                                   *)
(*                                                                         *)
(* Python integers are unbounded.  Primes and code points are kept as      *)
(* integers; every value that takes part in the RSA arithmetic (modulus,   *)
(* exponents, plaintext, padded plaintext, ciphertext) is a decimal        *)
(* numeral: the sequence of its digits, most significant first, as str()   *)
(* would print it.  Zero is <<0>>; a negative value -k is <<-k>>.          *)
(***************************************************************************)
EXTENDS Integers, Sequences, FiniteSets, TLC

(***************************************************************************)
(* Decimal numerals                                                        *)
(***************************************************************************)
Front(s) == SubSeq(s, 1, Len(s) - 1)

Last(s) == s[Len(s)]

Zero == <<0>>

One == <<1>>

IsNeg(m) == m[1] < 0

\* the numeral without leading zeros
Strip(s) ==
  IF \A i \in 1..Len(s) : s[i] = 0 THEN Zero
  ELSE LET first == CHOOSE i \in 1..Len(s) : s[i] # 0 /\ \A j \in 1..(i - 1) : s[j] = 0
       IN SubSeq(s, first, Len(s))

\* numerals of at most 9 digits are below 2^31
Fits(m) == Len(m) <= 9

RECURSIVE ToIntRec(_, _, _)
ToIntRec(m, i, acc) ==
  IF i > Len(m) THEN acc ELSE ToIntRec(m, i + 1, acc * 10 + m[i])

ToInt(m) == IF IsNeg(m) THEN m[1] ELSE ToIntRec(m, 1, 0)

RECURSIVE FromIntRec(_, _)
FromIntRec(i, acc) ==
  IF i < 10 THEN <<i>> \o acc ELSE FromIntRec(i \div 10, <<i % 10>> \o acc)

FromInt(i) == IF i < 0 THEN <<i>> ELSE FromIntRec(i, <<>>)

NumLt(a, b) ==
  IF IsNeg(a) \/ IsNeg(b) THEN ToInt(a) < ToInt(b)
  ELSE IF Len(a) # Len(b) THEN Len(a) < Len(b)
  ELSE \E i \in 1..Len(a) : a[i] < b[i] /\ \A j \in 1..(i - 1) : a[j] = b[j]

NumLe(a, b) == a = b \/ NumLt(a, b)

\* 10^k
Pow10(k) == <<1>> \o [i \in 1..k |-> 0]

(***************************************************************************)
(* Arithmetic on numerals too long for a machine integer: limbs in base    *)
(* 1000, most significant first.                                           *)
(***************************************************************************)
Base == 10 * 10 * 10

Limbs(m) ==
  LET n == (Len(m) + 2) \div 3
      pad == 3 * n - Len(m)
      dg(j) == IF j <= pad THEN 0 ELSE m[j - pad]
  IN [i \in 1..n |-> 100 * dg(3 * i - 2) + 10 * dg(3 * i - 1) + dg(3 * i)]

Digits(l) ==
  Strip([j \in 1..(3 * Len(l)) |->
           LET x == l[(j + 2) \div 3]
           IN IF j % 3 = 1 THEN x \div 100
              ELSE IF j % 3 = 2 THEN (x \div 10) % 10 ELSE x % 10])

LStrip(l) == IF Len(l) > 1 /\ l[1] = 0 THEN Strip(l) ELSE l

LLt(a, b) ==
  IF Len(a) # Len(b) THEN Len(a) < Len(b)
  ELSE \E i \in 1..Len(a) : a[i] < b[i] /\ \A j \in 1..(i - 1) : a[j] = b[j]

\* a + b
RECURSIVE LAddRec(_, _, _, _)
LAddRec(a, b, carry, acc) ==
  IF a = <<>> /\ b = <<>> THEN (IF carry = 0 THEN acc ELSE <<carry>> \o acc)
  ELSE LET da == IF a = <<>> THEN 0 ELSE Last(a)
           db == IF b = <<>> THEN 0 ELSE Last(b)
           s == da + db + carry
       IN LAddRec(IF a = <<>> THEN a ELSE Front(a), IF b = <<>> THEN b ELSE Front(b),
                  s \div Base, <<s % Base>> \o acc)

LAdd(a, b) == LStrip(LAddRec(a, b, 0, <<>>))

\* a - b, for a >= b
RECURSIVE LSubRec(_, _, _, _)
LSubRec(a, b, borrow, acc) ==
  IF a = <<>> THEN acc
  ELSE LET db == IF b = <<>> THEN 0 ELSE Last(b)
           s == Last(a) - db - borrow
       IN LSubRec(Front(a), IF b = <<>> THEN b ELSE Front(b),
                  IF s < 0 THEN 1 ELSE 0, <<(s + Base) % Base>> \o acc)

LSub(a, b) == LStrip(LSubRec(a, b, 0, <<>>))

\* a * k, for 0 <= k < 2 * Base
RECURSIVE LMulSmallRec(_, _, _, _)
LMulSmallRec(a, k, carry, acc) ==
  IF a = <<>> THEN (IF carry = 0 THEN acc
                    ELSE IF carry < Base THEN <<carry>> \o acc
                    ELSE <<carry \div Base, carry % Base>> \o acc)
  ELSE LET s == Last(a) * k + carry
       IN LMulSmallRec(Front(a), k, s \div Base, <<s % Base>> \o acc)

LMulSmall(a, k) == IF k = 0 THEN <<0>> ELSE LStrip(LMulSmallRec(a, k, 0, <<>>))

\* a * b (acc and r below are never empty: the test on their length makes the
\* model checker evaluate the accumulated value at each step)
RECURSIVE LMulRec(_, _, _, _)
LMulRec(a, b, i, acc) ==
  IF Len(acc) = 0 \/ i > Len(b) THEN acc
  ELSE LMulRec(a, b, i + 1, LAdd(LStrip(acc \o <<0>>), LMulSmall(a, b[i])))

LMul(a, b) == LMulRec(a, b, 1, <<0>>)

\* the value of the limbs of r above its s lowest ones (at most three limbs)
LTop(r, s) ==
  LET t == IF Len(r) > s THEN SubSeq(r, 1, Len(r) - s) ELSE <<0>>
  IN IF Len(t) = 1 THEN t[1]
     ELSE IF Len(t) = 2 THEN t[1] * Base + t[2]
     ELSE (t[1] * Base + t[2]) * Base + t[3]

RECURSIVE LReduce(_, _)
LReduce(r, n) == IF LLt(r, n) THEN r ELSE LReduce(LSub(r, n), n)

\* r mod n for r < Base * n: the quotient digit is estimated from the leading
\* limbs (never too large, at most a few units too small) and then corrected
LModStep(r, n) ==
  IF LLt(r, n) THEN r
  ELSE LET s == IF Len(n) > 2 THEN Len(n) - 2 ELSE 0
           q == LTop(r, s) \div (LTop(n, s) + 1)
       IN LReduce(LSub(r, LMulSmall(n, q)), n)

\* a mod n, long division over the limbs of a
RECURSIVE LModRec(_, _, _, _)
LModRec(a, n, i, r) ==
  IF Len(r) = 0 \/ i > Len(a) THEN r
  ELSE LModRec(a, n, i + 1, LModStep(LStrip(r \o <<a[i]>>), n))

LMod(a, n) == LModRec(a, n, 1, <<0>>)

\* quotient and remainder of a by a small k, 0 < k < 2^31 / Base
RECURSIVE LDivSmallRec(_, _, _, _, _)
LDivSmallRec(a, k, i, rem, acc) ==
  IF i > Len(a) THEN <<LStrip(acc), rem>>
  ELSE LET v == rem * Base + a[i]
       IN LDivSmallRec(a, k, i + 1, v % k, acc \o <<v \div k>>)

LDivSmall(a, k) == LDivSmallRec(a, k, 1, 0, <<>>)

(***************************************************************************)
(* Integer operations of Python on numerals (non-negative operands)        *)
(***************************************************************************)
\* a * b
NumMul(a, b) ==
  IF Len(a) + Len(b) <= 9 THEN FromInt(ToInt(a) * ToInt(b))
  ELSE Digits(LMul(Limbs(a), Limbs(b)))

\* a + b
NumAdd(a, b) ==
  IF Len(a) < 9 /\ Len(b) < 9 THEN FromInt(ToInt(a) + ToInt(b))
  ELSE Digits(LAdd(Limbs(a), Limbs(b)))

\* a - b, for a >= b
NumSub(a, b) ==
  IF Fits(a) THEN FromInt(ToInt(a) - ToInt(b))
  ELSE Digits(LSub(Limbs(a), Limbs(b)))

\* a % n, for n > 0
NumMod(a, n) ==
  IF Fits(a) /\ Fits(n) THEN FromInt(ToInt(a) % ToInt(n))
  ELSE IF NumLt(a, n) THEN a
  ELSE IF Len(n) <= 6 THEN FromInt(LDivSmall(Limbs(a), ToInt(n))[2])
  ELSE Digits(LMod(Limbs(a), Limbs(n)))

\* a // 10^k: the numeral without its last k digits
NumShiftRight(a, k) == IF k >= Len(a) THEN Zero ELSE SubSeq(a, 1, Len(a) - k)

\* a // k for a small k, 0 < k < 2^31 / Base
NumDivSmall(a, k) ==
  IF Fits(a) THEN FromInt(ToInt(a) \div k) ELSE Digits(LDivSmall(Limbs(a), k)[1])

(***************************************************************************)
(* Results: a function either returns a value or raises an exception.      *)
(***************************************************************************)
Ret(v) == [exc |-> "none", val |-> v]

Raise(e) == [exc |-> e, val |-> <<>>]

IsOk(r) == r.exc = "none"

\* the statements F that follow a call: skipped when the call raised
Then(r, F(_)) == IF IsOk(r) THEN F(r.val) ELSE r

\* try: r  except exc: v
Except(r, exc, v) == IF r.exc \in exc THEN v ELSE r

(***************************************************************************)
(* math.log10 and chr of the Python runtime                                *)
(***************************************************************************)
\* log10 works in IEEE-754 double precision: for a D-digit m within
\* Log10RoundsUp[D] of 10^D the double nearest to log10(m) is D itself (from
\* 15 digits on, e.g. log10(999999999999999) = 15.0), for every other m it
\* lies in [D-1, D).  Numerals have at most 18 digits in this model.
Log10RoundsUp == [D \in 1..18 |->
  IF D < 15 THEN 0 ELSE IF D = 15 THEN 2 ELSE IF D = 16 THEN 21
  ELSE IF D = 17 THEN 407 ELSE 4160]

\* int(log10(m)) for m > 0
IntLog10(m) ==
  LET D == Len(m)
      head == IF D > 4 THEN SubSeq(m, 1, D - 4) ELSE <<>>
      tail == IF D > 4 THEN SubSeq(m, D - 3, D) ELSE m
  IN IF /\ Log10RoundsUp[D] > 0
        /\ \A i \in 1..Len(head) : head[i] = 9
        /\ ToInt(tail) >= 10000 - Log10RoundsUp[D]
     THEN D ELSE D - 1

\* log10 raises ValueError (math domain error) for m <= 0
Log10Fails(m) == IsNeg(m) \/ m = Zero

\* chr(v): a code point, else ValueError, or OverflowError beyond a C int
MaxCodePoint == 1114111

chr(v) ==
  IF Fits(v) /\ ToInt(v) <= MaxCodePoint THEN Ret(ToInt(v))
  ELSE IF Len(v) < 10 \/ (Len(v) = 10 /\ NumLe(v, <<2,1,4,7,4,8,3,6,4,7>>))
       THEN Raise("ValueError")
  ELSE Raise("OverflowError")

(***************************************************************************)
(* The module `modular` (specification, section 4.1)                       *)
(***************************************************************************)
\* what anterior_primo returns when there is no prime below n (a float)
NE == -1

RECURSIVE ISqrtRec(_, _, _)
ISqrtRec(n, lo, hi) ==
  IF lo >= hi THEN lo
  ELSE LET mid == (lo + hi + 1) \div 2
       IN IF mid * mid <= n THEN ISqrtRec(n, mid, hi) ELSE ISqrtRec(n, lo, mid - 1)

ISqrt(n) == ISqrtRec(n, 0, IF n < 46340 THEN n ELSE 46340)

es_primo(n) == n >= 2 /\ \A d \in 2..ISqrt(n) : n % d # 0

RECURSIVE GcdInt(_, _)
GcdInt(a, b) == IF b = 0 THEN a ELSE GcdInt(b, a % b)

RECURSIVE NumGcd(_, _)
NumGcd(a, b) ==
  IF Fits(a) /\ Fits(b) THEN FromInt(GcdInt(ToInt(a), ToInt(b)))
  ELSE IF b = Zero THEN a ELSE NumGcd(b, NumMod(a, b))

coprimos(a, b) == NumGcd(a, b) = One

\* a * b mod n
MulMod(a, b, n) == NumMod(NumMul(a, b), n)

\* acc * x^k mod n for a machine integer k, x < n and acc < n (x and acc are
\* never empty: the tests on their length make the model checker evaluate
\* them at each step)
RECURSIVE SmallPow(_, _, _, _)
SmallPow(x, k, n, acc) ==
  IF Len(x) = 0 \/ Len(acc) = 0 \/ k = 0 THEN acc
  ELSE IF k % 2 = 0 THEN SmallPow(MulMod(x, x, n), k \div 2, n, acc)
  ELSE SmallPow(x, k - 1, n, MulMod(acc, x, n))

\* x^e mod n, over the limbs el of e and from the power acc of the limbs done
RECURSIVE PowLimbs(_, _, _, _, _)
PowLimbs(x, el, n, i, acc) ==
  IF i > Len(el) \/ Len(acc) = 0 THEN acc
  ELSE PowLimbs(x, el, n, i + 1,
                SmallPow(x, el[i], n, SmallPow(acc, Base, n, NumMod(One, n))))

\* x^k mod n on machine integers, for n * n below 2^31
RECURSIVE IntPow(_, _, _)
IntPow(x, k, n) ==
  IF k = 0 THEN 1 % n
  ELSE IF k % 2 = 0 THEN IntPow((x * x) % n, k \div 2, n)
  ELSE (x * IntPow(x, k - 1, n)) % n

\* base^exponent mod modulus; an arithmetic error if modulus <= 0
potencia_mod_p(base, exponent, modulus) ==
  IF IsNeg(modulus) \/ modulus = Zero THEN Raise("ArithmeticError")
  ELSE IF Len(modulus) <= 5 /\ ToInt(modulus) <= 46340 /\ Fits(exponent)
  THEN Ret(FromInt(IntPow(ToInt(NumMod(base, modulus)), ToInt(exponent), ToInt(modulus))))
  ELSE Ret(PowLimbs(NumMod(base, modulus), Limbs(exponent), modulus, 1, NumMod(One, modulus)))

\* the inverse of a modulo m for machine integers 0 < a < m, gcd(a, m) = 1:
\* (1 + m * k) / a for the k < a that makes the division exact
RECURSIVE InvInt(_, _)
InvInt(a, m) ==
  IF a = 1 THEN 1
  ELSE LET k == (a - InvInt(m % a, a)) % a IN (1 + m * k) \div a

\* the x in [0, modulus) with a * x = 1 (mod modulus); a domain error when a
\* and the modulus are not coprime.  The exponents inverted in this model are
\* below 46341, the moduli are unbounded.
InversaDe(ai, mi, modulus) ==
  NumDivSmall(NumAdd(NumMul(modulus, FromInt(IF ai = 1 THEN 0 ELSE (ai - InvInt(mi, ai)) % ai)),
                     One), ai)

inversa_mod_p(a, modulus) ==
  IF ~coprimos(a, modulus) THEN Raise("DomainError")
  ELSE IF modulus = One THEN Ret(Zero)
  ELSE Ret(InversaDe(ToInt(NumMod(a, modulus)), ToInt(NumMod(modulus, NumMod(a, modulus))),
                     modulus))

\* (p - 1) * (q - 1) for n = p * q, found by factoring n (n below 10^9)
euler(n) ==
  LET v == ToInt(n)
      p == IF \E f \in 2..ISqrt(v) : v % f = 0
           THEN CHOOSE f \in 2..ISqrt(v) : v % f = 0 /\ \A g \in 2..(f - 1) : v % g # 0
           ELSE v
  IN FromInt((p - 1) * ((v \div p) - 1))

(***************************************************************************)
(* The random module: a stream of decimal digits is a finite pattern,      *)
(* repeated; a call consumes the digits it is handed.                      *)
(***************************************************************************)
Draw(rnd, i) == rnd[((i - 1) % Len(rnd)) + 1]

\* the k digits that follow the first `at` digits of the stream
Suffix(rnd, at, k) == [t \in 1..k |-> Draw(rnd, at + t)]

(***************************************************************************)
(* src/rsa.py                                                              *)
(***************************************************************************)
RECURSIVE siguiente_primo(_)
siguiente_primo(n) == IF es_primo(n + 1) THEN n + 1 ELSE siguiente_primo(n + 1)

RECURSIVE anterior_primo(_)
anterior_primo(n) ==
  IF ~(n > 2) THEN NE
  ELSE IF es_primo(n - 1) THEN n - 1 ELSE anterior_primo(n - 1)

InTuple(p, out) == \E i \in 1..Len(out) : out[i] = p

RECURSIVE SkipChosenUp(_, _)
SkipChosenUp(p, out) ==
  IF InTuple(p, out) THEN SkipChosenUp(siguiente_primo(p), out) ELSE p

RECURSIVE SkipChosenDown(_, _)
SkipChosenDown(p, out) ==
  IF InTuple(p, out) THEN SkipChosenDown(anterior_primo(p), out) ELSE p

\* PrimoPara without the loop of lines 54-55: a prime already chosen is
\* returned again by the downward search
PrimoParaSinBucle(n, max_primo, out) ==
  LET p == SkipChosenUp(siguiente_primo(n), out)
  IN IF p >= max_primo THEN anterior_primo(max_primo) ELSE p

\* the body of the loop over the seeds (lines 49-56): the prime for seed n
PrimoPara(n, max_primo, out) ==
  LET p == SkipChosenUp(siguiente_primo(n), out)
  IN IF p >= max_primo THEN SkipChosenDown(anterior_primo(max_primo), out) ELSE p

\* GenerarRec without the test p < min_primo of line 57: a prime found below
\* the interval is kept
RECURSIVE GenerarRecSinCota(_, _, _, _, _)
GenerarRecSinCota(min_primo, max_primo, lista_aleatorios, i, output_primos) ==
  IF i > Len(lista_aleatorios)
  THEN Ret(IF Len(output_primos) = 1 THEN output_primos[1] ELSE output_primos)
  ELSE LET p == PrimoPara(lista_aleatorios[i], max_primo, output_primos)
       IN IF p = NE THEN Raise("ValueError")
          ELSE GenerarRecSinCota(min_primo, max_primo, lista_aleatorios, i + 1,
                                 Append(output_primos, p))

\* the loop over the seeds (lines 48-58) and the return of line 61
RECURSIVE GenerarRec(_, _, _, _, _)
GenerarRec(min_primo, max_primo, lista_aleatorios, i, output_primos) ==
  IF i > Len(lista_aleatorios)
  THEN Ret(IF Len(output_primos) = 1 THEN output_primos[1] ELSE output_primos)
  ELSE LET p == PrimoPara(lista_aleatorios[i], max_primo, output_primos)
       IN IF p = NE \/ p < min_primo THEN Raise("ValueError")
          ELSE GenerarRec(min_primo, max_primo, lista_aleatorios, i + 1,
                          Append(output_primos, p))

\* lista_aleatorios: the `numero` draws of random.randint(min_primo - 1, max_primo)
generar_numeros_primos(min_primo, max_primo, numero, lista_aleatorios) ==
  IF numero < 1 THEN Raise("ValueError")
  ELSE IF min_primo > max_primo THEN Raise("ValueError")
  ELSE GenerarRec(min_primo, max_primo, lista_aleatorios, 1, <<>>)

IsOdd(m) == Last(m) % 2 = 1

\* InRandRange for random.randrange(3, phi, 2): the candidate 1 is never drawn
InRandRangeDesde3(e, phi) == ~IsNeg(e) /\ IsOdd(e) /\ NumLt(One, e) /\ NumLt(e, phi)

\* random.randrange(1, phi, 2) can return e
InRandRange(e, phi) == ~IsNeg(e) /\ IsOdd(e) /\ NumLt(e, phi)

\* line 22
Phi(primo_1, primo_2) == NumMul(FromInt(primo_1 - 1), FromInt(primo_2 - 1))

\* ClavesDe with the first prime taken twice in the modulus
ClavesDeUnPrimo(primo_1, primo_2, e) ==
  LET n == NumMul(FromInt(primo_1), FromInt(primo_1))
      phi == Phi(primo_1, primo_2)
  IN <<n, e, inversa_mod_p(e, phi).val>>

\* lines 21-28, for the primes drawn and the e that ends the loop (a draw of
\* randrange(1, phi, 2) coprime with phi)
ClavesDe(primo_1, primo_2, e) ==
  LET n == NumMul(FromInt(primo_1), FromInt(primo_2))
      phi == Phi(primo_1, primo_2)
  IN <<n, e, inversa_mod_p(e, phi).val>>

generar_claves(min_primo, max_primo, lista_aleatorios, e) ==
  Then(generar_numeros_primos(min_primo, max_primo, 2, lista_aleatorios),
       LAMBDA primos : Ret(ClavesDe(primos[1], primos[2], e)))

\* digitos: the digitos_padding draws of random.randint(0, 9)
aplicar_padding(m, digitos_padding, digitos) ==
  IF digitos_padding < 0 \/ IsNeg(m) THEN Raise("ValueError")
  ELSE Ret(Strip(m \o digitos))

eliminar_padding(m, digitos_padding) ==
  IF ~(0 <= digitos_padding) THEN Raise("ValueError")
  ELSE IF Log10Fails(m) THEN Raise("ValueError")
  ELSE IF ~(digitos_padding < IntLog10(m) + 1) THEN Raise("ValueError")
  ELSE Ret(NumShiftRight(m, digitos_padding))

cifrar_rsa(m, n, e, digitos_padding, digitos) ==
  IF IsNeg(m) \/ IsNeg(n) \/ IsNeg(e) \/ digitos_padding < 0 THEN Raise("ValueError")
  ELSE IF Log10Fails(m) \/ Log10Fails(n) THEN Raise("ValueError")
  ELSE IF ~((IntLog10(m) + 1 + digitos_padding) < (IntLog10(n) + 1))
       THEN Raise("AssertionError")
  ELSE potencia_mod_p(aplicar_padding(m, digitos_padding, digitos).val, e, n)

descifrar_rsa(c, n, d, digitos_padding) ==
  Then(potencia_mod_p(c, d, n), LAMBDA m : eliminar_padding(m, digitos_padding))

\* s: the string as its code points; character i takes the i-th group of
\* digitos_padding digits of the stream that follows the first `at` groups
RECURSIVE CifrarCadenaRec(_, _, _, _, _, _, _, _)
CifrarCadenaRec(s, n, e, digitos_padding, rnd, at, i, acc) ==
  IF i > Len(s) THEN Ret(acc)
  ELSE Then(cifrar_rsa(FromInt(s[i]), n, e, digitos_padding,
                       Suffix(rnd, (at + i - 1) * digitos_padding, digitos_padding)),
            LAMBDA c : CifrarCadenaRec(s, n, e, digitos_padding, rnd, at, i + 1,
                                       Append(acc, c)))

CifrarCadenaAt(s, n, e, digitos_padding, rnd, at) ==
  CifrarCadenaRec(s, n, e, digitos_padding, rnd, at, 1, <<>>)

cifrar_cadena_rsa(s, n, e, digitos_padding, rnd) ==
  CifrarCadenaAt(s, n, e, digitos_padding, rnd, 0)

RECURSIVE DescifrarCadenaRec(_, _, _, _, _, _)
DescifrarCadenaRec(clist, n, d, digitos_padding, i, acc) ==
  IF i > Len(clist) THEN Ret(acc)
  ELSE Then(Then(descifrar_rsa(clist[i], n, d, digitos_padding), chr),
            LAMBDA ch : DescifrarCadenaRec(clist, n, d, digitos_padding, i + 1,
                                           Append(acc, ch)))

descifrar_cadena_rsa(clist, n, d, digitos_padding) ==
  DescifrarCadenaRec(clist, n, d, digitos_padding, 1, <<>>)

RomperCon(phi, e) ==
  IF ~(NumLt(One, e) /\ NumLt(e, phi) /\ coprimos(phi, e)) THEN Raise("AssertionError")
  ELSE inversa_mod_p(e, phi)

romper_clave(n, e) == RomperCon(euler(n), e)

ataque_texto_plano(clist, n, e) ==
  Then(romper_clave(n, e), LAMBDA d : descifrar_cadena_rsa(clist, n, d, 0))

(***************************************************************************)
(* src/criptochat.py                                                       *)
(*                                                                         *)
(* A string is the sequence of its code points.  A UserKey object carries  *)
(* its identity (oid).  An inbox is None until the first message arrives   *)
(* and is never an empty list afterwards: <<>> stands for None.  A         *)
(* container is <<sender id, date, message>>; the message is a list of     *)
(* cipher values or None.  An empty list left behind by an exception that  *)
(* escapes change_inbox_key is kept as <<>> too: every operation but the   *)
(* value returned by check_inbox treats the two alike.                     *)
(***************************************************************************)
\* the corrupted marker of a container
None == << <<-1>> >>

MENSAJE_CORRUPTO == <<-2>>

TestMessage == <<116, 101, 115, 116, 45, 109, 101, 115, 115, 97, 103, 101>>

UserKey(n, e, d, oid) == [public_key |-> <<n, e>>, private_key |-> <<n, d>>, oid |-> oid]

get_all_keys(user_key) ==
  <<user_key.public_key[1], user_key.public_key[2], user_key.private_key[2]>>

\* padding: the value of the global PADDING_DIGITS when the call is made
valid(n, e, d, padding, rnd) ==
  Except(Then(cifrar_cadena_rsa(TestMessage, n, e, padding, rnd),
              LAMBDA c : Then(descifrar_cadena_rsa(c, n, d, padding),
                              LAMBDA p : Ret(p = TestMessage))),
         {"OverflowError"}, Ret(FALSE))

\* User.__init__ (create_user passes neither user_id nor inbox)
User(users, user_key) == [id |-> Len(users), user_key |-> user_key, inbox |-> <<>>]

\* a plaintext that is None in temp_inbox
NoText == <<-1>>

\* catch(func, lambda message: None, *args): None on any exception
catch(r) == IF IsOk(r) THEN r.val ELSE NoText

\* lines 162-164 and 187-189: the inbox decrypted, None where it fails
TempInbox(inbox, n, d, padding) ==
  [i \in 1..Len(inbox) |->
     <<inbox[i][1], inbox[i][2],
       IF inbox[i][3] # None
       THEN catch(descifrar_cadena_rsa(inbox[i][3], n, d, padding)) ELSE NoText>>]

\* the loops of lines 166-173 and 191-202 over temp_inbox: each plaintext is
\* encrypted again; an exception among `caught` leaves None in the container,
\* any other exception escapes with the inbox rebuilt so far
RECURSIVE Reencrypt(_, _, _, _, _, _, _, _, _)
RECURSIVE ReencryptWith(_, _, _, _, _, _, _, _, _, _)
Reencrypt(temp_inbox, n, e, padding, rnd, at, caught, i, inbox) ==
  IF i > Len(temp_inbox) THEN [exc |-> "none", inbox |-> inbox]
  ELSE ReencryptWith(temp_inbox, n, e, padding, rnd, at, caught, i, inbox,
                     IF temp_inbox[i][3] # NoText
                     THEN CifrarCadenaAt(temp_inbox[i][3], n, e, padding, rnd, at)
                     ELSE Ret(None))

\* the loop with a container whose encryption fails left out of the inbox
ReencryptWithDescarta(temp_inbox, n, e, padding, rnd, at, caught, i, inbox, c) ==
  LET container == temp_inbox[i]
      used == IF container[3] # NoText THEN Len(container[3]) ELSE 0
  IN IF IsOk(c)
     THEN Reencrypt(temp_inbox, n, e, padding, rnd, at + used, caught, i + 1,
                    Append(inbox, <<container[1], container[2], c.val>>))
     ELSE IF c.exc \in caught
     THEN Reencrypt(temp_inbox, n, e, padding, rnd, at + used, caught, i + 1, inbox)
     ELSE [exc |-> c.exc, inbox |-> inbox]

\* c: what the encryption of container i returned or raised
ReencryptWith(temp_inbox, n, e, padding, rnd, at, caught, i, inbox, c) ==
  LET container == temp_inbox[i]
      used == IF container[3] # NoText THEN Len(container[3]) ELSE 0
  IN IF IsOk(c)
     THEN Reencrypt(temp_inbox, n, e, padding, rnd, at + used, caught, i + 1,
                    Append(inbox, <<container[1], container[2], c.val>>))
     ELSE IF c.exc \in caught
     THEN Reencrypt(temp_inbox, n, e, padding, rnd, at + used, caught, i + 1,
                    Append(inbox, <<container[1], container[2], None>>))
     ELSE [exc |-> c.exc, inbox |-> inbox]

\* User.change_inbox_key: the inbox after the call and the exception that escapes
change_inbox_key(user, prev_n, prev_d, new_n, new_e, padding, rnd, at) ==
  IF user.inbox # <<>>
  THEN Reencrypt(TempInbox(user.inbox, prev_n, prev_d, padding), new_n, new_e, padding,
                 rnd, at, {"AssertionError"}, 1, <<>>)
  ELSE [exc |-> "none", inbox |-> user.inbox]

\* User.change_inbox_padding
change_inbox_padding(user, padding_digits, padding, rnd, at) ==
  IF user.inbox # <<>>
  THEN LET k == get_all_keys(user.user_key)
       IN Reencrypt(TempInbox(user.inbox, k[1], k[3], padding), k[1], k[2], padding_digits,
                    rnd, at, {"ValueError", "AssertionError"}, 1, <<>>)
  ELSE [exc |-> "none", inbox |-> user.inbox]

\* change_user_keys with the key assigned before it is validated
ChangeUserKeysClaveAntes(user, n, e, d, oid, v, r) ==
  LET keyed == [user EXCEPT !.user_key = UserKey(n, e, d, oid)]
  IN IF ~IsOk(v) THEN [exc |-> v.exc, user |-> keyed]
     ELSE IF ~v.val THEN [exc |-> "AssertionError", user |-> keyed]
     ELSE IF r.exc # "none" THEN [exc |-> r.exc, user |-> [keyed EXCEPT !.inbox = r.inbox]]
     ELSE [exc |-> "none", user |-> [keyed EXCEPT !.inbox = r.inbox]]

\* lines 115-117, for v, what valid returned or raised (True when checked),
\* and r, what change_inbox_key leaves
ChangeUserKeysWith(user, n, e, d, oid, v, r) ==
  IF ~IsOk(v) THEN [exc |-> v.exc, user |-> user]
  ELSE IF ~v.val THEN [exc |-> "AssertionError", user |-> user]
  ELSE IF r.exc # "none" THEN [exc |-> r.exc, user |-> [user EXCEPT !.inbox = r.inbox]]
  ELSE [exc |-> "none",
        user |-> [user EXCEPT !.inbox = r.inbox, !.user_key = UserKey(n, e, d, oid)]]

\* User.change_user_keys: the user after the call and the exception that escapes
change_user_keys(user, n, e, d, checked, padding, rnd, oid) ==
  ChangeUserKeysWith(user, n, e, d, oid,
    IF checked THEN Ret(TRUE) ELSE valid(n, e, d, padding, rnd),
    change_inbox_key(user, user.user_key.private_key[1], user.user_key.private_key[2],
                     n, e, padding, rnd, IF checked THEN 0 ELSE Len(TestMessage)))

\* User.check_inbox: None (<<>>) for an inbox that is None, else the containers
\* decrypted; only ValueError is caught
RECURSIVE CheckInboxRec(_, _, _, _)
CheckInboxRec(user, padding, i, decrypted_messages) ==
  IF i > Len(user.inbox) THEN Ret(decrypted_messages)
  ELSE Then(IF user.inbox[i][3] = None THEN Ret(MENSAJE_CORRUPTO)
            ELSE Except(descifrar_cadena_rsa(user.inbox[i][3], user.user_key.private_key[1],
                                             user.user_key.private_key[2], padding),
                        {"ValueError"}, Ret(MENSAJE_CORRUPTO)),
            LAMBDA text : CheckInboxRec(user, padding, i + 1,
                            Append(decrypted_messages,
                                   <<user.inbox[i][1], user.inbox[i][2], text>>)))

check_inbox(user, padding) ==
  IF user.inbox = <<>> THEN Ret(<<>>) ELSE CheckInboxRec(user, padding, 1, <<>>)

\* send_message with the container put in front of the inbox
SendWithAlFrente(shipper_user, receiver_user, date, encrypted_message) ==
  IF IsOk(encrypted_message)
  THEN [receiver_user EXCEPT
          !.inbox = <<<<shipper_user.id, date, encrypted_message.val>>>> \o @]
  ELSE receiver_user

\* lines 263-265, for what the encryption returned or raised
SendWith(shipper_user, receiver_user, date, encrypted_message) ==
  IF IsOk(encrypted_message)
  THEN [receiver_user EXCEPT
          !.inbox = Append(@, <<shipper_user.id, date, encrypted_message.val>>)]
  ELSE receiver_user

\* send_message: the receiver after the call; `finally: return None` lets no
\* exception escape
send_message(shipper_user, receiver_user, message, date, padding, rnd) ==
  SendWith(shipper_user, receiver_user, date,
           cifrar_cadena_rsa(message, receiver_user.user_key.public_key[1],
                             receiver_user.user_key.public_key[2], padding, rnd))

\* change_padding, lines 553-555: every inbox is rewritten, then the global is
\* set; an exception escaping from a user's change leaves the rest untouched
RECURSIVE ChangePaddingRec(_, _, _, _, _)
RECURSIVE ChangePaddingWith(_, _, _, _, _, _)
ChangePaddingRec(users, padding_digits, padding, rnd, i) ==
  IF i > Len(users) THEN [exc |-> "none", users |-> users]
  ELSE ChangePaddingWith(users, padding_digits, padding, rnd, i,
                         change_inbox_padding(users[i], padding_digits, padding, rnd, i))

\* r: what change_inbox_padding leaves of the inbox of user i
ChangePaddingWith(users, padding_digits, padding, rnd, i, r) ==
  IF r.exc # "none" THEN [exc |-> r.exc, users |-> [users EXCEPT ![i].inbox = r.inbox]]
  ELSE ChangePaddingRec([users EXCEPT ![i].inbox = r.inbox], padding_digits, padding, rnd,
                        i + 1)

change_padding(users, padding_digits, padding, rnd) ==
  ChangePaddingRec(users, padding_digits, padding, rnd, 1)

(***************************************************************************)
(* State                                                                   *)
(***************************************************************************)
VARIABLES
  USERS,            \* criptochat.USERS: the users, the one with id i at i + 1
  PADDING_DIGITS,   \* criptochat.PADDING_DIGITS
  user_key,         \* the default of create_user's parameter user_key
  sent,             \* history: the plaintexts sent to each user, in order
  last              \* the last call: its arguments and its outcome

vars == <<USERS, PADDING_DIGITS, user_key, sent, last>>

\* bounds of the inputs
MaxPrimo == 9
MaxNumero == 3
MaxExponente == 7
MinPrimoClave == 100
MaxPrimoClave == 104

\* the odd numbers random.randrange(1, phi, 2) is given to draw from
Exponentes == {FromInt(e) : e \in {x \in 1..MaxExponente : x % 2 = 1}}

\* the seeds random.randint(min_primo - 1, max_primo) can give
Semillas(min_primo, max_primo, numero) ==
  IF numero < 1 \/ min_primo > max_primo THEN {<<>>}
  ELSE [1..numero -> (min_primo - 1)..max_primo]

\* the keys rsa.generar_claves can return for the interval of the chat of the
\* model, with the greatest exponent of the sample
ClavesAleatorias ==
  LET primos == {g \in {generar_numeros_primos(MinPrimoClave, MaxPrimoClave, 2, l) :
                          l \in Semillas(MinPrimoClave, MaxPrimoClave, 2)} : IsOk(g)}
      phi(p) == Phi(p[1], p[2])
  IN UNION {{ClavesDe(g.val[1], g.val[2], e) :
               e \in {x \in Exponentes : /\ NumLt(x, phi(g.val)) /\ coprimos(phi(g.val), x)
                                           /\ \A y \in Exponentes : NumLe(y, x)}} :
            g \in primos}

\* get_rand_user_key (line 47), over the interval of the model
get_rand_user_key(claves, oid) == UserKey(claves[1], claves[2], claves[3], oid)

Start == [op |-> "import"]

\* criptochat imported: no user, ten padding digits, the default key of
\* create_user generated once (line 225)
Init ==
  /\ USERS = <<>>
  /\ PADDING_DIGITS = 10
  /\ \E claves \in ClavesAleatorias : user_key = get_rand_user_key(claves, 0)
  /\ sent = <<>>
  /\ last = Start

\* the calls of the functions of rsa.py are followed from the import
InitRsa == Init

chat == <<USERS, PADDING_DIGITS, user_key, sent>>

(***************************************************************************)
(* Calls of rsa.generar_numeros_primos                                     *)
(***************************************************************************)
GenerarNumerosPrimos ==
  /\ last = Start
  /\ \E min_primo \in 0..MaxPrimo, max_primo \in 0..MaxPrimo, numero \in 0..MaxNumero :
       \E lista_aleatorios \in Semillas(min_primo, max_primo, numero) :
         last' = [op |-> "generar_numeros_primos", min_primo |-> min_primo,
                  max_primo |-> max_primo, numero |-> numero,
                  lista_aleatorios |-> lista_aleatorios,
                  ret |-> generar_numeros_primos(min_primo, max_primo, numero,
                                                 lista_aleatorios)]
  /\ UNCHANGED chat

NextPrimos == GenerarNumerosPrimos

SpecPrimos == InitRsa /\ [][NextPrimos]_vars

\* C3: whenever generar_numeros_primos returns, the result holds exactly
\* `numero` pairwise distinct primes of [min_primo, max_primo), the i-th being
\* the one found for the i-th seed: the least prime above the seed that is
\* below max_primo and not yet chosen, else the greatest such prime below
\* max_primo
IsPrime(p) == p > 1 /\ \A f \in 2..(p - 1) : p % f # 0

C3_Primos ==
  (last.op = "generar_numeros_primos" /\ IsOk(last.ret)) =>
    LET out == IF last.numero = 1 THEN <<last.ret.val>> ELSE last.ret.val
        free(i) == {p \in 0..(last.max_primo - 1) :
                      IsPrime(p) /\ \A j \in 1..(i - 1) : out[j] # p}
        up(i) == {p \in free(i) : p > last.lista_aleatorios[i]}
    IN /\ Len(out) = last.numero
       /\ \A i \in 1..Len(out) :
            /\ IsPrime(out[i])
            /\ last.min_primo <= out[i] /\ out[i] < last.max_primo
            /\ \A j \in 1..Len(out) : i # j => out[i] # out[j]
            /\ out[i] \in free(i)
            /\ IF up(i) # {} THEN \A p \in up(i) : out[i] <= p
               ELSE \A p \in free(i) : p <= out[i]

\* three primes returned for seeds that all send the search downward
C3_Witness ==
  /\ last.op = "generar_numeros_primos" /\ IsOk(last.ret)
  /\ last.numero = 3
  /\ \A i \in 1..3 : last.lista_aleatorios[i] = last.max_primo

\* C12: generar_numeros_primos raises ValueError whenever numero < 1, or
\* min_primo > max_primo, or [min_primo, max_primo) holds fewer than `numero`
\* primes, whatever the seeds
PrimosEn(min_primo, max_primo) == {p \in min_primo..(max_primo - 1) : IsPrime(p)}

C12_Falla ==
  (/\ last.op = "generar_numeros_primos"
   /\ \/ last.numero < 1
      \/ last.min_primo > last.max_primo
      \/ Cardinality(PrimosEn(last.min_primo, last.max_primo)) < last.numero) =>
    last.ret = Raise("ValueError")

\* two primes asked of an interval that holds some, but fewer, with seeds
\* that send the second search downward
C12_Witness ==
  /\ last.op = "generar_numeros_primos"
  /\ last.numero = 2 /\ last.min_primo <= last.max_primo
  /\ Cardinality(PrimosEn(last.min_primo, last.max_primo)) = 1
  /\ last.min_primo > 2
  /\ last.ret = Raise("ValueError")

(***************************************************************************)
(* Calls of rsa.generar_claves, step by step, and of rsa.romper_clave      *)
(***************************************************************************)
\* 150425719 * 664779937 = 99999999999999703
IntervaloGrande == <<150425719, 664779938>>

IntervalosClaves ==
  {<<a, b>> : a \in 0..3, b \in 4..MaxPrimo} \cup {<<MinPrimoClave, MaxPrimoClave>>}

\* line 20
GenerarClavesPrimosEn(intervalos) ==
  /\ last = Start
  /\ \E i \in intervalos :
       \E l \in IF i = IntervaloGrande THEN {<<i[1] - 1, i[2]>>} ELSE Semillas(i[1], i[2], 2) :
         LET primos == generar_numeros_primos(i[1], i[2], 2, l)
         IN last' = IF IsOk(primos)
                    THEN [op |-> "generar_claves", pc |-> "e", min_primo |-> i[1],
                          max_primo |-> i[2], primo_1 |-> primos.val[1],
                          primo_2 |-> primos.val[2], e |-> Zero, ret |-> Ret(<<>>)]
                    ELSE [op |-> "generar_claves", pc |-> "raised", min_primo |-> i[1],
                          max_primo |-> i[2], primo_1 |-> 0, primo_2 |-> 0, e |-> Zero,
                          ret |-> primos]
  /\ UNCHANGED chat

GenerarClavesPrimos == GenerarClavesPrimosEn(IntervalosClaves \cup {IntervaloGrande})

\* lines 24-26: one round of the loop, in which random.randrange gives e
GenerarClavesCon(e) ==
  /\ last.op = "generar_claves" /\ last.pc = "e"
  /\ InRandRange(e, Phi(last.primo_1, last.primo_2))
  /\ last' = [last EXCEPT !.e = e,
                !.pc = IF coprimos(Phi(last.primo_1, last.primo_2), e) THEN "d" ELSE "e"]
  /\ UNCHANGED chat

\* lines 23-26: one round of the loop
GenerarClavesE == \E e \in Exponentes : GenerarClavesCon(e)

\* lines 27-28
GenerarClavesD ==
  /\ last.op = "generar_claves" /\ last.pc = "d"
  /\ last' = [last EXCEPT !.pc = "done",
                !.ret = Ret(ClavesDe(last.primo_1, last.primo_2, last.e))]
  /\ UNCHANGED chat

\* romper_clave on the public half of a key generated (n below 10^9)
RomperClave ==
  /\ last.op = "generar_claves" /\ last.pc = "done" /\ Fits(last.ret.val[1])
  /\ last' = [op |-> "romper_clave", claves |-> last.ret.val,
              ret |-> romper_clave(last.ret.val[1], last.ret.val[2])]
  /\ UNCHANGED chat

NextClaves == GenerarClavesPrimos \/ GenerarClavesE \/ GenerarClavesD \/ RomperClave

SpecClaves == InitRsa /\ [][NextClaves]_vars

\* C4: every triple (n, e, d) generar_claves returns has n = p * q for two
\* distinct primes p, q of [min_primo, max_primo), e odd in [1, phi) and
\* coprime with phi = (p - 1)(q - 1), and e * d mod phi = 1 with 0 <= d < phi
C4_Claves ==
  (last.op = "generar_claves" /\ last.pc = "done") =>
    LET p == last.primo_1
        q == last.primo_2
        n == last.ret.val[1]
        e == last.ret.val[2]
        d == last.ret.val[3]
        phi == NumMul(NumSub(FromInt(p), One), NumSub(FromInt(q), One))
    IN /\ es_primo(p) /\ es_primo(q) /\ p # q
       /\ last.min_primo <= p /\ p < last.max_primo
       /\ last.min_primo <= q /\ q < last.max_primo
       /\ n = NumMul(FromInt(p), FromInt(q))
       /\ IsOdd(e) /\ NumLe(One, e) /\ NumLt(e, phi)
       /\ NumGcd(e, phi) = One
       /\ NumMod(NumMul(e, d), phi) = One
       /\ ~IsNeg(d) /\ NumLt(d, phi)

\* a key returned whose exponent is not the trivial one
C4_Witness ==
  /\ last.op = "generar_claves" /\ last.pc = "done"
  /\ NumLt(One, last.ret.val[2]) /\ NumLt(One, last.ret.val[3])

\* generar_claves over the small intervals, under a fair random choice: a
\* candidate that random.randrange can give is not left out for ever (weak
\* fairness of each draw); and the function goes on after the loop: once the
\* loop has ended lines 27-28 are the only step, and the run does not stay
\* before them for ever
NextTermina ==
  GenerarClavesPrimosEn(IntervalosClaves) \/ GenerarClavesE \/ GenerarClavesD

SpecClavesFair ==
  /\ InitRsa /\ [][NextTermina]_vars
  /\ \A e \in Exponentes : WF_vars(GenerarClavesCon(e))
  /\ []<>~(last.op = "generar_claves" /\ last.pc = "d")

\* C13: under a fair random choice of the candidate e, the loop of
\* generar_claves ends for every pair of distinct primes, and the function
\* returns
C13_Termina ==
  (last.op = "generar_claves" /\ last.pc = "e") ~>
    (last.op = "generar_claves" /\ last.pc = "done" /\ IsOk(last.ret))

\* a round of the loop has drawn a candidate that is not coprime with phi
C13_Witness ==
  /\ last.op = "generar_claves" /\ last.pc = "e" /\ last.e # Zero
  /\ ~coprimos(Phi(last.primo_1, last.primo_2), last.e)

\* C5: romper_clave(n, e) returns the d of every key (n, e, d) that
\* generar_claves can return
C5_RomperClave ==
  last.op = "romper_clave" => last.ret = Ret(last.claves[3])

(***************************************************************************)
(* Calls of the codec of rsa.py under a key generated                      *)
(***************************************************************************)
MaxPadding == 2

\* the padding digits tried under the modulus n: few, and the most that a
\* message of two digits leaves room for
PaddingsDe(n) == (0..MaxPadding) \cup {k \in {Len(n) - 2} : k >= 0}

\* patterns of the digits random.randint(0, 9) gives
Streams == {<<0>>, <<9>>, <<3, 7>>}

MensajesRsa == {<<-1>>, Zero, <<5>>, <<7, 2>>, <<9, 9>>, <<1, 0, 4>>}

\* "", "c" and "Hi"
Cadenas == {<<>>, <<99>>, <<72, 105>>}

CifrarRsa ==
  /\ last.op = "generar_claves" /\ last.pc = "done"
  /\ \E m \in MensajesRsa, k \in PaddingsDe(last.ret.val[1]), rnd \in Streams :
       last' = [op |-> "cifrar_rsa", claves |-> last.ret.val, m |-> m,
                digitos_padding |-> k, digitos |-> Suffix(rnd, 0, k),
                ret |-> cifrar_rsa(m, last.ret.val[1], last.ret.val[2], k, Suffix(rnd, 0, k))]
  /\ UNCHANGED chat

\* descifrar_rsa on the value cifrar_rsa returned
DescifrarRsa ==
  /\ last.op = "cifrar_rsa" /\ IsOk(last.ret)
  /\ last' = [op |-> "descifrar_rsa", claves |-> last.claves, m |-> last.m,
              digitos_padding |-> last.digitos_padding, c |-> last.ret.val,
              ret |-> descifrar_rsa(last.ret.val, last.claves[1], last.claves[3],
                                    last.digitos_padding)]
  /\ UNCHANGED chat

CifrarCadenaRsa ==
  /\ last.op = "generar_claves" /\ last.pc = "done"
  /\ \E s \in Cadenas, k \in PaddingsDe(last.ret.val[1]), rnd \in Streams :
       last' = [op |-> "cifrar_cadena_rsa", claves |-> last.ret.val, s |-> s,
                digitos_padding |-> k,
                ret |-> cifrar_cadena_rsa(s, last.ret.val[1], last.ret.val[2], k, rnd)]
  /\ UNCHANGED chat

\* descifrar_cadena_rsa on the list cifrar_cadena_rsa returned, as it is
\* (bad = 0) or with the value at bad replaced by 0
DescifrarCadenaRsa ==
  /\ last.op = "cifrar_cadena_rsa" /\ IsOk(last.ret)
  /\ \E bad \in 0..Len(last.ret.val) :
       LET clist == [i \in 1..Len(last.ret.val) |->
                       IF i = bad THEN Zero ELSE last.ret.val[i]]
       IN last' = [op |-> "descifrar_cadena_rsa", claves |-> last.claves, s |-> last.s,
                   digitos_padding |-> last.digitos_padding, clist |-> clist, bad |-> bad,
                   ret |-> descifrar_cadena_rsa(clist, last.claves[1], last.claves[3],
                                                last.digitos_padding)]
  /\ UNCHANGED chat

MaxDigitos == 3

Valores ==
  {Zero, <<5>>, <<5, 7>>, <<1, 0, 0>>, <<4, 0, 9, 6>>,
   [i \in 1..15 |-> 9], [i \in 1..15 |-> IF i = 15 THEN 7 ELSE 9]}

EliminarPadding ==
  /\ last = Start
  /\ \E m \in Valores :
       \E digitos_padding \in (-1..MaxDigitos) \cup {Len(m) - 1, Len(m)} :
         last' = [op |-> "eliminar_padding", m |-> m, digitos_padding |-> digitos_padding,
                  ret |-> eliminar_padding(m, digitos_padding)]
  /\ UNCHANGED chat

NextRsa ==
  \/ GenerarClavesPrimos \/ GenerarClavesE \/ GenerarClavesD
  \/ CifrarRsa \/ DescifrarRsa \/ CifrarCadenaRsa \/ DescifrarCadenaRsa \/ EliminarPadding

SpecRsa == InitRsa /\ [][NextRsa]_vars

\* C1: descifrar_rsa(cifrar_rsa(m, n, e, k), n, d, k) returns m for every key
\* generar_claves produces, every k >= 0 and m >= 0 that cifrar_rsa accepts
\* and every random suffix
C1_RoundTrip ==
  last.op = "descifrar_rsa" => last.ret = Ret(last.m)

\* C2: cifrar_cadena_rsa returns one cipher value per character, and
\* descifrar_cadena_rsa applied to that list returns the string
C2_Cadena ==
  /\ (last.op = "cifrar_cadena_rsa" /\ IsOk(last.ret)) => Len(last.ret.val) = Len(last.s)
  /\ (last.op = "descifrar_cadena_rsa" /\ last.bad = 0) => last.ret = Ret(last.s)

\* C6: eliminar_padding(value, digits) returns value div 10^digits when
\* 0 <= digits < the number of decimal digits of value, and raises ValueError
\* for every other digits
C6_EliminarPadding ==
  last.op = "eliminar_padding" =>
    IF 0 <= last.digitos_padding /\ last.digitos_padding < Len(last.m)
    THEN last.ret = Ret(SubSeq(last.m, 1, Len(last.m) - last.digitos_padding))
    ELSE last.ret = Raise("ValueError")

\* C7: when one value of the list fails to decrypt, descifrar_cadena_rsa
\* still returns the other characters of the message
C7_Aislamiento ==
  (last.op = "descifrar_cadena_rsa" /\ last.bad # 0 /\ Len(last.s) > 1) =>
    /\ IsOk(last.ret)
    /\ \A j \in 1..Len(last.s) : j # last.bad => last.ret.val[j] = last.s[j]

\* C11: whenever cifrar_rsa passes its input checks, the padded plaintext
\* handed to the modular power is strictly less than n, for every suffix
C11_PaddedBelowN ==
  (last.op = "cifrar_rsa" /\ IsOk(last.ret)) =>
    NumLt(aplicar_padding(last.m, last.digitos_padding, last.digitos).val, last.claves[1])

(***************************************************************************)
(* The chat: criptochat.py                                                 *)
(***************************************************************************)
MaxUsers == 2
MaxContainers == 1
MaxPaddingChat == 1

\* the digits random.randint(0, 9) gives in the chat
StreamsChat == {<<3, 7>>}

\* the number of containers in all the inboxes
RECURSIVE Containers(_)
Containers(users) ==
  IF users = <<>> THEN 0 ELSE Len(users[1].inbox) + Containers(Tail(users))

\* "hi"
Textos == {<<104, 105>>}

Fecha == "02/11/2026"

\* keys typed in: 1127 = 7 * 7 * 23 with 5 * 185 = 1 (mod 6 * 22), a wrong d
\* for 10403 = 101 * 103, and the modulus 0
ClavesExplicitas ==
  {<<<<1, 1, 2, 7>>, <<5>>, <<1, 8, 5>>>>,
   <<<<1, 0, 4, 0, 3>>, <<7>>, <<1>>>>,
   <<Zero, One, One>>}

\* the identity of the UserKey object constructed for the user at position u
\* of USERS: the object of the import keeps 0, and the object a user held
\* before is dead once it is replaced
NewOid(u) == u

\* register(), no key typed in (line 496): create_user(username)
RegisterDefault ==
  /\ Len(USERS) < MaxUsers
  /\ USERS' = Append(USERS, User(USERS, user_key))
  /\ sent' = Append(sent, <<>>)
  /\ last' = [op |-> "create_user", exc |-> "none", id |-> Len(USERS), explicit |-> FALSE]
  /\ UNCHANGED <<PADDING_DIGITS, user_key>>

\* register(), a key typed in (lines 498-510): the key is validated and the
\* user created; on ValueError or AssertionError the key is asked for again
RegisterKeyDe(typed, max_users) ==
  /\ Len(USERS) < max_users
  /\ \E claves \in typed, rnd \in StreamsChat :
       \E v \in {valid(claves[1], claves[2], claves[3], PADDING_DIGITS, rnd)} :
         IF IsOk(v) /\ v.val
         THEN /\ USERS' = Append(USERS, User(USERS, UserKey(claves[1], claves[2], claves[3],
                                                           NewOid(Len(USERS) + 1))))
              /\ sent' = Append(sent, <<>>)
              /\ last' = [op |-> "create_user", exc |-> "none", id |-> Len(USERS),
                          explicit |-> TRUE]
         ELSE /\ last' = [op |-> "register",
                          exc |-> IF IsOk(v) THEN "AssertionError" ELSE v.exc]
              /\ UNCHANGED <<USERS, sent>>
  /\ UNCHANGED <<PADDING_DIGITS, user_key>>

RegisterKey == RegisterKeyDe(ClavesExplicitas, MaxUsers)

\* Menu.send_message_menu (line 419): send_message(logged user, receiver, message)
SendMessageDe(textos, max_containers) ==
  \E shipper \in 1..Len(USERS), receiver \in 1..Len(USERS), message \in textos,
     rnd \in StreamsChat :
    /\ Containers(USERS) < max_containers
    /\ \E user \in {send_message(USERS[shipper], USERS[receiver], message, Fecha,
                                 PADDING_DIGITS, rnd)} :
         /\ USERS' = [USERS EXCEPT ![receiver] = user]
         /\ sent' = IF Len(user.inbox) > Len(USERS[receiver].inbox)
                    THEN [sent EXCEPT ![receiver] = Append(@, message)] ELSE sent
         /\ last' = [op |-> "send_message", exc |-> "none", id |-> receiver - 1,
                     shipper |-> shipper - 1, message |-> message, rnd |-> rnd,
                     appended |-> Len(user.inbox) > Len(USERS[receiver].inbox)]
    /\ UNCHANGED <<PADDING_DIGITS, user_key>>

SendMessage == SendMessageDe(Textos, MaxContainers)

\* Menu.change_keys_menu, no key typed in (lines 428-431): a key is generated
\* and change_user_keys called with checked = True
ChangeKeysRandom ==
  /\ \E u \in 1..Len(USERS), claves \in ClavesAleatorias, rnd \in StreamsChat :
       \E r \in {change_user_keys(USERS[u], claves[1], claves[2], claves[3], TRUE,
                                  PADDING_DIGITS, rnd, NewOid(u))} :
         /\ USERS' = [USERS EXCEPT ![u] = r.user]
         /\ last' = [op |-> "change_user_keys", exc |-> r.exc, id |-> u - 1,
                     checked |-> TRUE, claves |-> claves, rnd |-> rnd]
  /\ UNCHANGED <<PADDING_DIGITS, user_key, sent>>

\* Menu.change_keys_menu, a key typed in (lines 433-445): change_user_keys
\* validates it; ValueError and AssertionError are caught by the menu
ChangeKeysTyped ==
  /\ \E u \in 1..Len(USERS), claves \in ClavesExplicitas,
        rnd \in StreamsChat :
       \E r \in {change_user_keys(USERS[u], claves[1], claves[2], claves[3], FALSE,
                                  PADDING_DIGITS, rnd, NewOid(u))} :
         /\ USERS' = [USERS EXCEPT ![u] = r.user]
         /\ last' = [op |-> "change_user_keys", exc |-> r.exc, id |-> u - 1,
                     checked |-> FALSE, claves |-> claves, rnd |-> rnd]
  /\ UNCHANGED <<PADDING_DIGITS, user_key, sent>>

\* change_padding (lines 551-555)
ChangePadding ==
  /\ \E padding_digits \in 0..MaxPaddingChat, rnd \in StreamsChat :
       \E r \in {change_padding(USERS, padding_digits, PADDING_DIGITS, rnd)} :
         /\ USERS' = r.users
         /\ PADDING_DIGITS' = IF r.exc = "none" THEN padding_digits ELSE PADDING_DIGITS
         /\ last' = [op |-> "change_padding", exc |-> r.exc]
  /\ UNCHANGED <<user_key, sent>>

\* Menu: the inbox of the logged user is shown
CheckInbox ==
  /\ \E u \in 1..Len(USERS) :
       last' = [op |-> "check_inbox", id |-> u - 1, ret |-> check_inbox(USERS[u], PADDING_DIGITS)]
  /\ UNCHANGED chat

Next ==
  \/ RegisterDefault \/ RegisterKey \/ SendMessage \/ ChangeKeysRandom \/ ChangeKeysTyped
  \/ ChangePadding \/ CheckInbox

Spec == Init /\ [][Next]_vars

\* C9: every inbox entry is None or a ciphertext that decrypts, under the
\* current private key of its user and the current PADDING_DIGITS, to the
\* text that was sent
C9_Inbox ==
  \A u \in 1..Len(USERS) : \A i \in 1..Len(USERS[u].inbox) :
    \/ USERS[u].inbox[i][3] = None
    \/ /\ i <= Len(sent[u])
       /\ descifrar_cadena_rsa(USERS[u].inbox[i][3], USERS[u].user_key.private_key[1],
                               USERS[u].user_key.private_key[2], PADDING_DIGITS)
            = Ret(sent[u][i])

\* C10: a user created without an explicit key holds a key object of its
\* own: not the object made at the import, and not the object of another user
C10_ClavePropia ==
  (last.op = "create_user" /\ ~last.explicit) =>
    LET oid == USERS[last.id + 1].user_key.oid
    IN /\ oid # user_key.oid
       /\ \A v \in 1..Len(USERS) : v # last.id + 1 => USERS[v].user_key.oid # oid

\* what valid makes of the key typed in the last call of change_user_keys:
\* False, or an exception
ValidationFails(claves, padding, rnd) ==
  \E v \in {valid(claves[1], claves[2], claves[3], padding, rnd)} : ~IsOk(v) \/ ~v.val

\* container `new` is container `old` decrypted with the private key (n, d)
\* and encrypted with the public key (new_n, new_e), or the corrupted marker
ReencryptedFrom(old, new, n, d, new_n, new_e, padding, rnd) ==
  /\ new[1] = old[1] /\ new[2] = old[2]
  /\ \/ new[3] = None
     \/ /\ old[3] # None
        /\ \E t \in {descifrar_cadena_rsa(old[3], n, d, padding)} :
             /\ IsOk(t)
             /\ \E at \in 0..(Len(TestMessage) + Len(rnd)) :
                  Ret(new[3]) = CifrarCadenaAt(t.val, new_n, new_e, padding, rnd, at)

\* the step of change_user_keys that replaces the key of user u
ReplacesKey(u) ==
  /\ last'.op = "change_user_keys" /\ last'.id = u - 1 /\ last'.exc = "none"
  /\ get_all_keys(USERS'[u].user_key) = last'.claves
  /\ Len(USERS'[u].inbox) = Len(USERS[u].inbox)
  /\ \A i \in 1..Len(USERS[u].inbox) :
       ReencryptedFrom(USERS[u].inbox[i], USERS'[u].inbox[i],
                       USERS[u].user_key.private_key[1], USERS[u].user_key.private_key[2],
                       last'.claves[1], last'.claves[2], PADDING_DIGITS, last'.rnd)

\* C14: change_user_keys with checked = False and a key for which valid
\* returns False or raises aborts before any change: the key and every inbox
\* entry of every user are as before.  A key is only replaced by a
\* change_user_keys that succeeds, all three numbers at once, with the inbox
\* decrypted with the old private key and encrypted with the new public key
C14_Abort ==
  [][/\ (/\ last'.op = "change_user_keys" /\ ~last'.checked
          /\ ValidationFails(last'.claves, PADDING_DIGITS, last'.rnd))
         => (USERS' = USERS /\ last'.exc \in {"ValueError", "AssertionError"})
     /\ \A u \in 1..Len(USERS) :
          USERS'[u].user_key # USERS[u].user_key => ReplacesKey(u)]_vars

\* a key that makes valid raise was typed in by a user with a message in the inbox
C14_Witness ==
  /\ last.op = "change_user_keys" /\ ~last.checked /\ last.exc = "ValueError"
  /\ USERS[last.id + 1].inbox # <<>>

(***************************************************************************)
(* The chat with two containers: inboxes with a corrupted and a readable   *)
(* entry                                                                   *)
(***************************************************************************)
MaxContainersInbox == 2

\* "h" and the letter 1023, four digits long
TextosInbox == {<<104>>, <<1023>>}

SendMessageInbox == SendMessageDe(TextosInbox, MaxContainersInbox)

NextInbox ==
  \/ RegisterDefault \/ SendMessageInbox \/ ChangeKeysRandom \/ ChangePadding \/ CheckInbox

SpecInbox == Init /\ [][NextInbox]_vars

\* C15: a send_message whose encryption succeeds appends exactly one
\* container (sender id, date, ciphertext) at the end of the receiver's inbox
\* and leaves the earlier containers as they were; one whose encryption
\* raises leaves the inbox as it was and lets no exception escape; in both
\* cases no other user's inbox or key, and not the receiver's key, changes
C15_Send ==
  [][last'.op = "send_message" =>
       \E r \in {last'.id + 1} :
         \E c \in {cifrar_cadena_rsa(last'.message, USERS[r].user_key.public_key[1],
                                     USERS[r].user_key.public_key[2], PADDING_DIGITS,
                                     last'.rnd)} :
           /\ last'.exc = "none"
           /\ Len(USERS') = Len(USERS)
           /\ \A u \in 1..Len(USERS) : u # r => USERS'[u] = USERS[u]
           /\ USERS'[r].user_key = USERS[r].user_key
           /\ USERS'[r].inbox = IF IsOk(c)
                                THEN Append(USERS[r].inbox, <<last'.shipper, Fecha, c.val>>)
                                ELSE USERS[r].inbox
           /\ (~IsOk(c) => c.exc \in {"ValueError", "AssertionError"})]_vars

\* a message was appended behind another one, with a second user registered
C15_Witness ==
  /\ last.op = "send_message" /\ last.appended
  /\ Len(USERS) = 2 /\ Len(USERS[last.id + 1].inbox) = 2

MaxUsersCorrupto == 1

\* "h" and "i"
TextosCorrupto == {<<104>>, <<105>>}

\* a key typed in: 2505398959 = 7 * 7 * 51130591 with
\* 11 * 9296471 = 1 (mod lcm(42, 51130590))
ClavesCorrupto == {<<<<2, 5, 0, 5, 3, 9, 8, 9, 5, 9>>, <<1, 1>>, <<9, 2, 9, 6, 4, 7, 1>>>>}

RegisterKeyCorrupto == RegisterKeyDe(ClavesCorrupto, MaxUsersCorrupto)

SendMessageCorrupto == SendMessageDe(TextosCorrupto, MaxContainersInbox)

NextCorrupto == RegisterKeyCorrupto \/ SendMessageCorrupto \/ ChangePadding \/ CheckInbox

SpecCorrupto == Init /\ [][NextCorrupto]_vars

\* C17: a container whose message is None keeps None in every later step,
\* key rotations and padding changes included, and check_inbox of an inbox
\* with such a container returns the list of the inbox with "MENSAJE
\* CORRUPTO" for it and the decrypted text for every other container whose
\* decryption does not raise ValueError
C17_Corrupto ==
  [][/\ \A u \in 1..Len(USERS) : \A i \in 1..Len(USERS[u].inbox) :
          USERS[u].inbox[i][3] = None =>
            (i <= Len(USERS'[u].inbox) /\ USERS'[u].inbox[i][3] = None)
     /\ last'.op = "check_inbox" =>
          \E user \in {USERS[last'.id + 1]} :
            (\E i \in 1..Len(user.inbox) : user.inbox[i][3] = None) =>
              /\ IsOk(last'.ret)
              /\ Len(last'.ret.val) = Len(user.inbox)
              /\ \A i \in 1..Len(user.inbox) :
                   last'.ret.val[i][3] =
                     IF user.inbox[i][3] = None THEN MENSAJE_CORRUPTO
                     ELSE Except(descifrar_cadena_rsa(user.inbox[i][3],
                                                      user.user_key.private_key[1],
                                                      user.user_key.private_key[2],
                                                      PADDING_DIGITS),
                                 {"ValueError"}, Ret(MENSAJE_CORRUPTO)).val]_vars

(***************************************************************************)
(* Calls of valid under the padding digits of the chat                     *)
(***************************************************************************)
\* triples of non-negative integers typed in as a key: the moduli 0, 1127,
\* 10403 and 99999999999999703
ClavesValid ==
  {<<n, e, d>> : n \in {Zero, <<1, 1, 2, 7>>, <<1, 0, 4, 0, 3>>,
                        [i \in 1..17 |-> IF i = 15 THEN 7 ELSE IF i = 16 THEN 0
                                         ELSE IF i = 17 THEN 3 ELSE 9]},
                e \in {One, <<5>>, <<7>>},
                d \in {One, <<1, 8, 5>>, <<8, 7, 4, 3>>}}

Valid ==
  /\ \E claves \in ClavesValid, rnd \in StreamsChat :
       last' = [op |-> "valid", claves |-> claves, rnd |-> rnd,
                ret |-> valid(claves[1], claves[2], claves[3], PADDING_DIGITS, rnd)]
  /\ UNCHANGED chat

NextValid == ChangePadding \/ Valid

SpecValid == Init /\ [][NextValid]_vars

\* the round trip of valid: "test-message" encrypted with (n, e) and
\* decrypted with (n, d)
RoundTrip(n, e, d, padding, rnd) ==
  Then(cifrar_cadena_rsa(TestMessage, n, e, padding, rnd),
       LAMBDA c : descifrar_cadena_rsa(c, n, d, padding))

\* C8: valid returns True when the round trip of "test-message" reproduces
\* it, and False otherwise, also when the round trip raises an error
C8_Valid ==
  last.op = "valid" =>
    last.ret = Ret(RoundTrip(last.claves[1], last.claves[2], last.claves[3],
                             PADDING_DIGITS, last.rnd) = Ret(TestMessage))

====
